---------------------------- MODULE Spec2Model ----------------------------
(***************************************************************************)
(* The optimisation engine of the departmental timetable generator         *)
(* (src/main.py): slot parsing and its cache, the cost function, the       *)
(* random construction and mutation operators and the simulated-annealing  *)
(* loop.                                                                   *)
(*                                                                         *)
(* A slot label is a Python string; it is modelled as the sequence of its  *)
(* characters so that split() and int() are computed, not assumed.         *)
(***************************************************************************)
EXTENDS Integers, Sequences, FiniteSets, TLC

VARIABLES
    courses,              \* global list of course identifiers
    faculty,              \* global dict course -> teacher
    rooms,                \* global list of rooms
    slots,                \* global list of slot labels
    preferred_slots,      \* global dict teacher -> list of slot labels
    requirements,         \* global dict course -> session count
    slot_parsed,          \* _slot_parsed: label -> <<day, start_minutes>>
    course_teacher_cache, \* _course_teacher_cache: course -> teacher
    timetable,            \* the solution handed to cost_function / built by random_solution
    label,                \* the label handed to parse_slot
    ret,                  \* <<value>> when the last call returned, else <<>>
    raised,               \* the exception the last call raised, "" when none
    day_penalty,          \* what the day-level pass of the last cost_function added
    draws,                \* number of draws random_solution made on the random source
    pc,                   \* where simulated_annealing stands
    params,               \* its arguments: max_iter, T0, alpha, stop_if_zero
    current, current_cost, best, best_cost, T, it, history,
    neighbor, neighbor_cost,
    init_cost             \* current_cost as first computed (line 199)

vars == <<courses, faculty, rooms, slots, preferred_slots, requirements,
          slot_parsed, course_teacher_cache, timetable, label, ret,
          raised, day_penalty, draws, pc, params, current, current_cost, best,
          best_cost, T, it, history, neighbor, neighbor_cost, init_cost>>

config == <<courses, faculty, rooms, slots, preferred_slots, requirements>>
caches == <<slot_parsed, course_teacher_cache>>
sa_state == <<pc, params, current, current_cost, best, best_cost, T, it,
              history, neighbor, neighbor_cost, init_cost>>

-----------------------------------------------------------------------------
(* Python dict and list helpers *)

EmptyDict == [x \in {} |-> 0]

\* d.get(k, default)
Get(d, k, default) == IF k \in DOMAIN d THEN d[k] ELSE default

\* d[k] = v
Put(d, k, v) == [x \in DOMAIN d \cup {k} |-> IF x = k THEN v ELSE d[x]]

\* x in list
InList(x, list) == \E i \in 1..Len(list) : list[i] = x

Range(list) == {list[i] : i \in 1..Len(list)}

RECURSIVE SumSeq(_)
SumSeq(s) == IF s = <<>> THEN 0 ELSE Head(s) + SumSeq(Tail(s))

-----------------------------------------------------------------------------
(* Python str.split and int on character sequences *)

Digits == <<"0", "1", "2", "3", "4", "5", "6", "7", "8", "9">>

IsDigit(ch) == InList(ch, Digits)

DigitVal(ch) == (CHOOSE i \in 1..Len(Digits) : Digits[i] = ch) - 1

\* index of the first ch in s, 0 when there is none
RECURSIVE IndexOf(_, _, _)
IndexOf(s, ch, from) ==
    IF from > Len(s) THEN 0
    ELSE IF s[from] = ch THEN from
    ELSE IndexOf(s, ch, from + 1)

\* s.split(ch): the list of parts, i being the index of the first ch
RECURSIVE Split(_, _)
RECURSIVE SplitAt(_, _, _)
SplitAt(s, ch, i) ==
    IF i = 0 THEN <<s>>
    ELSE <<SubSeq(s, 1, i - 1)>> \o Split(SubSeq(s, i + 1, Len(s)), ch)

Split(s, ch) == SplitAt(s, ch, IndexOf(s, ch, 1))

\* s.split(ch, 1): at most one split
SplitOnceAt(s, i) ==
    IF i = 0 THEN <<s>>
    ELSE <<SubSeq(s, 1, i - 1), SubSeq(s, i + 1, Len(s))>>

SplitOnce(s, ch) == SplitOnceAt(s, IndexOf(s, ch, 1))

\* s.strip() for the blank
RECURSIVE Strip(_)
Strip(s) ==
    IF s = <<>> THEN s
    ELSE IF Head(s) = " " THEN Strip(Tail(s))
    ELSE IF s[Len(s)] = " " THEN Strip(SubSeq(s, 1, Len(s) - 1))
    ELSE s

\* digits with single underscores between them, as int() reads them
RECURSIVE DigitRun(_, _)
DigitRun(s, acc) ==
    IF s = <<>> THEN [ok |-> TRUE, val |-> acc]
    ELSE IF IsDigit(Head(s)) THEN DigitRun(Tail(s), acc * 10 + DigitVal(Head(s)))
    ELSE IF Head(s) = "_" /\ Len(s) >= 2 /\ IsDigit(s[2]) THEN DigitRun(Tail(s), acc)
    ELSE [ok |-> FALSE, val |-> 0]

Unsigned(body) ==
    IF body # <<>> /\ IsDigit(Head(body)) THEN DigitRun(body, 0)
    ELSE [ok |-> FALSE, val |-> 0]

Negated(run) == IF run.ok THEN [ok |-> TRUE, val |-> 0 - run.val] ELSE run

Signed(t) ==
    IF t # <<>> /\ Head(t) = "-" THEN Negated(Unsigned(Tail(t)))
    ELSE IF t # <<>> /\ Head(t) = "+" THEN Unsigned(Tail(t))
    ELSE Unsigned(t)

\* int(s): blanks stripped, an optional sign, then digits; ok = FALSE is ValueError
PyInt(s) == Signed(Strip(s))

-----------------------------------------------------------------------------
(* parse_slot: lines 44-47, the parse proper; ok = FALSE is the exception *)

ParseFail == [ok |-> FALSE, day |-> <<>>, start_minutes |-> 0]

\* lines 46-47: hh, mm = map(int, ...); start_minutes = hh * 60 + mm
StartMinutes(day, hh, mm) ==
    IF ~hh.ok \/ ~mm.ok THEN ParseFail
    ELSE [ok |-> TRUE, day |-> day, start_minutes |-> hh.val * 60 + mm.val]

\* line 46: start_str.split(":") must give two parts
HourMinute(day, hm) ==
    IF Len(hm) # 2 THEN ParseFail
    ELSE StartMinutes(day, PyInt(hm[1]), PyInt(hm[2]))

\* lines 44-45: slot.split(" ", 1) must give two parts; the start is what
\* precedes the first "-" of the second
DayAndRange(first) ==
    IF Len(first) # 2 THEN ParseFail
    ELSE HourMinute(first[1], Split(Split(first[2], "-")[1], ":"))

ParseLabel(slot) == DayAndRange(SplitOnce(slot, " "))

\* line 48: a successful parse p is stored
Store(sp, slot, p) ==
    IF p.ok
    THEN [ok |-> TRUE, val |-> <<p.day, p.start_minutes>>,
          cache |-> Put(sp, slot, <<p.day, p.start_minutes>>)]
    ELSE [ok |-> FALSE, val |-> <<>>, cache |-> sp]

\* parse_slot(slot) on cache sp: the value returned (or the raise) and the cache after
ParseSlot(sp, slot) ==
    IF slot \in DOMAIN sp
    THEN [ok |-> TRUE, val |-> sp[slot], cache |-> sp]
    ELSE Store(sp, slot, ParseLabel(slot))

\* refresh_caches: the slot cache cleared and primed with the catalog
RECURSIVE PrimeSlots(_, _)
PrimeSlots(sp, list) ==
    IF list = <<>> THEN sp
    ELSE PrimeSlots(ParseSlot(sp, Head(list)).cache, Tail(list))

\* refresh_caches: the teacher cache rebuilt from courses and faculty
PrimeTeachers(cs, fac) == [c \in Range(cs) |-> Get(fac, c, "")]


-----------------------------------------------------------------------------
(* cost_function *)

WEIGHTS ==
    [teacher_slot_conflict |-> 20000, room_slot_conflict |-> 20000,
     not_preferred |-> 2, back_to_back |-> 1, gap |-> 1,
     too_many_sessions_day |-> 10, missing_teacher |-> 20000,
     malformed_slot |-> 20000]

\* line 84: the teacher is read from the teacher cache
TeacherOf(ctc, course) == Get(ctc, course, "")

\* the teacher conflict left unpenalised
TeacherSlotFree(used_faculty, key_fac) == 0

\* lines 89-93
TeacherSlotPenalty(used_faculty, key_fac) ==
    IF key_fac \in used_faculty THEN WEIGHTS.teacher_slot_conflict ELSE 0

\* the room conflict left unpenalised
RoomSlotFree(used_rooms, key_room) == 0

\* lines 95-99
RoomSlotPenalty(used_rooms, key_room) ==
    IF key_room \in used_rooms THEN WEIGHTS.room_slot_conflict ELSE 0

\* lines 102-104
PreferencePenalty(pref, teacher, slot) ==
    IF teacher \in DOMAIN pref /\ pref[teacher] # <<>> /\ ~InList(slot, pref[teacher])
    THEN WEIGHTS.not_preferred ELSE 0

\* line 114: faculty_schedule.setdefault(teacher, {}).setdefault(day, []).append(m)
DayAppend(days, day, m) == Put(days, day, Append(Get(days, day, <<>>), m))

ScheduleAppend(fs, teacher, day, m) ==
    Put(fs, teacher, DayAppend(Get(fs, teacher, EmptyDict), day, m))

\* the state before the first assignment: lines 73-76, and the slot cache
CostStart(sp) ==
    [penalty |-> 0, used_faculty |-> {}, used_rooms |-> {},
     faculty_schedule |-> EmptyDict, cache |-> sp]

\* lines 107-114: the slot parsed, the penalty or the schedule entry
Scheduled(st, teacher, parsed) ==
    IF ~parsed.ok
    THEN [st EXCEPT !.penalty = @ + WEIGHTS.malformed_slot, !.cache = parsed.cache]
    ELSE [st EXCEPT !.cache = parsed.cache,
                    !.faculty_schedule =
                        ScheduleAppend(@, teacher, parsed.val[1], parsed.val[2])]

\* lines 89-104: the conflicts and the preference
Checked(st, teacher, slot, room, pref) ==
    [st EXCEPT !.penalty = @ + TeacherSlotPenalty(st.used_faculty, <<teacher, slot>>)
                             + RoomSlotPenalty(st.used_rooms, <<room, slot>>)
                             + PreferencePenalty(pref, teacher, slot),
               !.used_faculty = @ \cup {<<teacher, slot>>},
               !.used_rooms = @ \cup {<<room, slot>>}]

\* lines 84-87: the teacher looked up, the assignment skipped when there is none
WithTeacher(st, teacher, slot, room, pref) ==
    IF teacher = ""
    THEN [st EXCEPT !.penalty = @ + WEIGHTS.missing_teacher]
    ELSE Scheduled(Checked(st, teacher, slot, room, pref), teacher,
                   ParseSlot(st.cache, slot))

\* one turn of the loop of lines 83-114
CostAssignment(st, a, ctc, pref) ==
    WithTeacher(st, TeacherOf(ctc, a[1]), a[2], a[3], pref)

RECURSIVE CostLoop(_, _, _, _)
CostLoop(st, tt, ctc, pref) ==
    IF tt = <<>> THEN st
    ELSE CostLoop(CostAssignment(st, Head(tt), ctc, pref), Tail(tt), ctc, pref)

\* list.sort() of the start minutes: insertion into an ascending list
RECURSIVE InsertSorted(_, _)
InsertSorted(sorted, m) ==
    IF sorted = <<>> THEN <<m>>
    ELSE IF m < Head(sorted) THEN <<m>> \o sorted
    ELSE <<Head(sorted)>> \o InsertSorted(Tail(sorted), m)

\* the sort left out
Unsorted(starts) == starts

RECURSIVE SortStarts(_)
SortStarts(starts) ==
    IF starts = <<>> THEN <<>>
    ELSE InsertSorted(SortStarts(Tail(starts)), Head(starts))

\* lines 126-129
PairPenalty(diff) ==
    IF 0 < diff /\ diff <= 60 THEN WEIGHTS.back_to_back
    ELSE IF diff > 60 THEN WEIGHTS.gap
    ELSE 0

\* lines 121-122
TooManyPenalty(n) ==
    IF n >= 5 THEN WEIGHTS.too_many_sessions_day * (n - 4) ELSE 0

\* lines 124-129: the consecutive pairs of the sorted list
PairsPenalty(sorted) ==
    SumSeq([i \in 1..(IF sorted = <<>> THEN 0 ELSE Len(sorted) - 1) |->
               PairPenalty(sorted[i + 1] - sorted[i])])

\* lines 120-129 for one day's sorted list
SortedPenalty(sorted) == TooManyPenalty(Len(sorted)) + PairsPenalty(sorted)

\* lines 119-129 for one day's list
BucketPenalty(starts) == SortedPenalty(SortStarts(starts))

RECURSIVE SumOver(_, _)
RECURSIVE SumFrom(_, _, _)
SumFrom(d, keys, k) == d[k] + SumOver(d, keys \ {k})

SumOver(d, keys) ==
    IF keys = {} THEN 0 ELSE SumFrom(d, keys, CHOOSE x \in keys : TRUE)

\* lines 118-129 for one teacher
TeacherPenalty(days) ==
    SumOver([d \in DOMAIN days |-> BucketPenalty(days[d])], DOMAIN days)

\* lines 117-129
DayLevelPenalty(fs) ==
    SumOver([t \in DOMAIN fs |-> TeacherPenalty(fs[t])], DOMAIN fs)

\* line 130: the penalty of the loop and of the day-level pass
CostResult(st, dayp) ==
    [penalty |-> st.penalty + dayp, day_part |-> dayp, cache |-> st.cache]

CostAfterLoop(st) == CostResult(st, DayLevelPenalty(st.faculty_schedule))

\* cost_function(tt) with caches sp, ctc: the penalty returned, the part the
\* day-level pass added, and the slot cache left behind
CostFunction(tt, sp, ctc, pref) ==
    CostAfterLoop(CostLoop(CostStart(sp), tt, ctc, pref))

-----------------------------------------------------------------------------
(* random_solution *)

\* line 145: requirements.get(course, 1)
SessionCount(course) == Get(requirements, course, 1)

\* lines 148 and 179: the teacher has a non-empty preference list
HasPreference(course) ==
    LET teacher == Get(faculty, course, "")
    IN  teacher \in DOMAIN preferred_slots /\ preferred_slots[teacher] # <<>>

PreferredOf(course) == Range(preferred_slots[Get(faculty, course, "")])

\* lines 147-151: the slot drawn for a session of course. n counts the draws
\* made; raised is random.choice on an empty list (IndexError).
SlotDraws(course) ==
    LET base == IF HasPreference(course) THEN 1 ELSE 0
        fromPref == IF HasPreference(course)
                    THEN {[raised |-> FALSE, slot |-> s, n |-> 2] : s \in PreferredOf(course)}
                    ELSE {}
        fromAll == IF slots = <<>>
                   THEN {[raised |-> TRUE, slot |-> <<>>, n |-> base]}
                   ELSE {[raised |-> FALSE, slot |-> s, n |-> base + 1] : s \in Range(slots)}
    IN  fromPref \cup fromAll

\* line 152: random.choice(local_rooms)
RoomDraws ==
    IF rooms = <<>>
    THEN {[raised |-> TRUE, room |-> "", n |-> 0]}
    ELSE {[raised |-> FALSE, room |-> r, n |-> 1] : r \in Range(rooms)}

\* lines 147-153: one session
SessionOutcomes(course) ==
    UNION {IF sd.raised
           THEN {[raised |-> TRUE, a |-> <<>>, n |-> sd.n]}
           ELSE {[raised |-> rd.raised, a |-> <<course, sd.slot, rd.room>>,
                  n |-> sd.n + rd.n] : rd \in RoomDraws}
           : sd \in SlotDraws(course)}

\* lines 144-146: the sessions in the order the two loops visit them
RECURSIVE Repeat(_, _)
Repeat(x, n) == IF n <= 0 THEN <<>> ELSE <<x>> \o Repeat(x, n - 1)

RECURSIVE SessionList(_)
SessionList(cs) ==
    IF cs = <<>> THEN <<>>
    ELSE Repeat(Head(cs), SessionCount(Head(cs))) \o SessionList(Tail(cs))

RECURSIVE BuildFrom(_, _, _)
BuildFrom(sessions, tt, n) ==
    IF sessions = <<>> THEN {[raised |-> FALSE, tt |-> tt, draws |-> n]}
    ELSE UNION {IF o.raised
                THEN {[raised |-> TRUE, tt |-> tt, draws |-> n + o.n]}
                ELSE BuildFrom(Tail(sessions), Append(tt, o.a), n + o.n)
                : o \in SessionOutcomes(Head(sessions))}

\* every way random_solution() can end: the list returned, or the raise with
\* the list built so far
RandomSolution == BuildFrom(SessionList(courses), <<>>, 0)

-----------------------------------------------------------------------------
(* neighbor_solution *)

Returned(tt) == [raised |-> FALSE, tt |-> tt]
Raised == [raised |-> TRUE, tt |-> <<>>]

\* one assignment copied over another instead of exchanged with it
CopyMoves(tt) ==
    {Returned([tt EXCEPT ![p[1]] = tt[p[2]]])
     : p \in {q \in (1..Len(tt)) \X (1..Len(tt)) : q[1] # q[2]}}

\* lines 165-174: two distinct positions, slots swapped or assignments swapped
SwapMoves(tt) ==
    LET L == Len(tt)
    IN  UNION {{Returned([tt EXCEPT ![i] = <<tt[i][1], tt[j][2], tt[i][3]>>,
                                   ![j] = <<tt[j][1], tt[i][2], tt[j][3]>>]),
                Returned([tt EXCEPT ![i] = tt[j], ![j] = tt[i]])}
               : <<i, j>> \in {p \in (1..L) \X (1..L) : p[1] # p[2]}}

\* lines 178-182: the new slot
NewSlotDraws(course) ==
    (IF HasPreference(course) THEN PreferredOf(course) ELSE {})
    \cup Range(slots)

\* lines 176-186: one position gets a new slot and keeps or redraws its room
ReassignMoves(tt) ==
    UNION {
        (IF slots = <<>> THEN {Raised} ELSE {})
        \cup UNION {
            {Returned([tt EXCEPT ![idx] = <<tt[idx][1], s, tt[idx][3]>>])}
            \cup (IF rooms = <<>> THEN {Raised}
                  ELSE {Returned([tt EXCEPT ![idx] = <<tt[idx][1], s, r>>])
                        : r \in Range(rooms)})
            : s \in NewSlotDraws(tt[idx][1])}
        : idx \in 1..Len(tt)}

\* lines 188-190: one position gets a new room
RoomMoves(tt) ==
    IF rooms = <<>> THEN {Raised}
    ELSE {Returned([tt EXCEPT ![idx] = <<tt[idx][1], tt[idx][2], r>>])
          : idx \in 1..Len(tt), r \in Range(rooms)}

\* every way neighbor_solution(tt) can end
NeighborSolution(tt) ==
    IF tt = <<>> THEN {Returned(<<>>)}
    ELSE (IF Len(tt) >= 2 THEN SwapMoves(tt) ELSE {})
         \cup ReassignMoves(tt) \cup RoomMoves(tt)

-----------------------------------------------------------------------------
(* The calls *)

\* refresh_caches(): lines 51-63
refresh_caches ==
    /\ pc # "loop"
    /\ slot_parsed' = PrimeSlots(EmptyDict, slots)
    /\ course_teacher_cache' = PrimeTeachers(courses, faculty)
    /\ UNCHANGED <<config, timetable, label, ret, raised, day_penalty, draws, sa_state>>

\* parse_slot(l): lines 39-49
parse_slot(l) ==
    /\ pc # "loop"
    /\ label' = l
    /\ \E r \in {ParseSlot(slot_parsed, l)} :
         /\ ret' = IF r.ok THEN <<r.val>> ELSE <<>>
         /\ raised' = IF r.ok THEN "" ELSE "ValueError"
         /\ slot_parsed' = r.cache
    /\ UNCHANGED <<config, course_teacher_cache, timetable, day_penalty, draws, sa_state>>

\* cost_function(timetable): lines 68-130
cost_function ==
    /\ pc # "loop"
    /\ \E r \in {CostFunction(timetable, slot_parsed, course_teacher_cache,
                              preferred_slots)} :
         /\ ret' = <<r.penalty>>
         /\ day_penalty' = r.day_part
         /\ slot_parsed' = r.cache
    /\ raised' = ""
    /\ UNCHANGED <<config, course_teacher_cache, timetable, label, draws, sa_state>>

\* random_solution(): lines 135-154
random_solution ==
    /\ pc = "idle"
    /\ \E o \in RandomSolution :
         /\ draws' = o.draws
         /\ raised' = IF o.raised THEN "IndexError" ELSE ""
         /\ ret' = IF o.raised THEN <<>> ELSE <<o.tt>>
         /\ timetable' = IF o.raised THEN timetable ELSE o.tt
    /\ UNCHANGED <<config, caches, label, day_penalty, sa_state>>

-----------------------------------------------------------------------------
(* simulated_annealing *)

\* line 228: the temperature floor 1e-8, the temperature being counted in 1e-9
TFloor == 10

\* line 265: T *= alpha
Cool(temp, alpha) == (temp * alpha.num) \div alpha.den

\* the draw consulted even for an improving candidate
AcceptByDrawOnly(delta) == {TRUE, FALSE}

\* line 235: delta < 0 accepts whatever the draw; delta = 0 compares the draw,
\* which is below 1, with exp(0) = 1; delta > 0 compares it with a value in
\* [0, 1), so the draw decides (where the exponential underflows to 0.0 only
\* the rejection is left: the model keeps both outcomes).
AcceptDraws(delta) ==
    IF delta <= 0 THEN {TRUE} ELSE {TRUE, FALSE}

\* the best replaced by every accepted candidate
NewBestAlways(cost, bestc) == TRUE

\* the best never replaced
NewBestNever(cost, bestc) == FALSE

\* line 237
NewBest(cost, bestc) == cost < bestc

\* the early stop left out
StopNever(stop_if_zero, bestc) == FALSE

\* line 262
StopNow(stop_if_zero, bestc) == stop_if_zero /\ bestc = 0

\* line 203
EmptyHistory == [iter |-> <<>>, current_cost |-> <<>>, best_cost |-> <<>>]

\* lines 240-242
Record(h, i, cc, bc) ==
    [iter |-> Append(h.iter, i), current_cost |-> Append(h.current_cost, cc),
     best_cost |-> Append(h.best_cost, bc)]

\* lines 197-203, and the return of line 286 when the loop has no turn to make
sa_start ==
    /\ pc = "idle"
    /\ \E o \in RandomSolution :
         /\ draws' = o.draws
         /\ IF o.raised
            THEN /\ pc' = "raised"
                 /\ raised' = "IndexError"
                 /\ ret' = <<>>
                 /\ UNCHANGED <<timetable, slot_parsed, day_penalty, current,
                                current_cost, best, best_cost, T, it, history,
                                init_cost>>
            ELSE \E c \in {CostFunction(o.tt, slot_parsed, course_teacher_cache,
                                        preferred_slots)} :
                     /\ timetable' = o.tt
                     /\ slot_parsed' = c.cache
                     /\ day_penalty' = c.day_part
                     /\ current' = o.tt
                     /\ current_cost' = c.penalty
                     /\ best' = o.tt
                     /\ best_cost' = c.penalty
                     /\ init_cost' = c.penalty
                     /\ T' = params.T0
                     /\ it' = 0
                     /\ history' = EmptyHistory
                     /\ raised' = ""
                     /\ pc' = IF params.max_iter = 0 THEN "returned" ELSE "loop"
                     /\ ret' = IF params.max_iter = 0
                               THEN <<<<o.tt, c.penalty>>>> ELSE <<>>
    /\ UNCHANGED <<config, course_teacher_cache, label, params, neighbor, neighbor_cost>>

\* lines 232-265 of one turn: the candidate nb with cost c, accepted or not
Decide(nb, c, accept) ==
    \E cur \in {[tt |-> IF accept THEN nb ELSE current,
                 cost |-> IF accept THEN c ELSE current_cost]} :
    \E bst \in {IF accept /\ NewBest(c, best_cost)
                THEN [tt |-> nb, cost |-> c]
                ELSE [tt |-> best, cost |-> best_cost]} :
    \E stop \in {StopNow(params.stop_if_zero, bst.cost)} :
    \E over \in {stop \/ it + 1 = params.max_iter} :
        /\ current' = cur.tt
        /\ current_cost' = cur.cost
        /\ best' = bst.tt
        /\ best_cost' = bst.cost
        /\ history' = Record(history, it + 1, cur.cost, bst.cost)
        /\ T' = IF stop THEN T ELSE Cool(T, params.alpha)
        /\ pc' = IF over THEN "returned" ELSE "loop"
        /\ ret' = IF over THEN <<<<bst.tt, bst.cost>>>> ELSE <<>>
        /\ raised' = ""

\* one turn of the loop, lines 227-265, and the return of line 286 when it is
\* the last
sa_iterate ==
    /\ pc = "loop"
    /\ it < params.max_iter
    /\ T > TFloor
    /\ it' = it + 1
    /\ \E nb \in NeighborSolution(current) :
         IF nb.raised
         THEN /\ pc' = "raised"
              /\ raised' = "IndexError"
              /\ UNCHANGED <<slot_parsed, day_penalty, current, current_cost, best,
                             best_cost, T, history, neighbor, neighbor_cost, ret>>
         ELSE \E c \in {CostFunction(nb.tt, slot_parsed, course_teacher_cache,
                                     preferred_slots)} :
                /\ neighbor' = nb.tt
                /\ neighbor_cost' = c.penalty
                /\ slot_parsed' = c.cache
                /\ day_penalty' = c.day_part
                /\ \E accept \in AcceptDraws(c.penalty - current_cost) :
                     Decide(nb.tt, c.penalty, accept)
    /\ UNCHANGED <<config, course_teacher_cache, timetable, label, draws, params,
                   init_cost>>

\* lines 228-229 and 286: the temperature is at the floor
sa_cold ==
    /\ pc = "loop"
    /\ it < params.max_iter
    /\ T <= TFloor
    /\ it' = it + 1
    /\ pc' = "returned"
    /\ ret' = <<<<best, best_cost>>>>
    /\ UNCHANGED <<config, caches, timetable, label, raised, day_penalty, draws,
                   params, current, current_cost, best, best_cost, T, history,
                   neighbor, neighbor_cost, init_cost>>

-----------------------------------------------------------------------------
(* Inputs *)

Mon09 == <<"M", "o", "n", " ", "0", "9", ":", "0", "0", "-", "1", "0", ":", "0", "0">>
Mon10 == <<"M", "o", "n", " ", "1", "0", ":", "0", "0", "-", "1", "1", ":", "0", "0">>
Mon12 == <<"M", "o", "n", " ", "1", "2", ":", "0", "0", "-", "1", "3", ":", "0", "0">>
Tue09 == <<"T", "u", "e", " ", "0", "9", ":", "0", "0", "-", "1", "0", ":", "0", "0">>
BadSlot == <<"B", "a", "d", "S", "l", "o", "t">>
NoDash == <<"M", "o", "n", " ", "0", "9", ":", "0", "0">>
NoEnd == <<"M", "o", "n", " ", "0", "9", ":", "0", "0", "-">>
BadEnd == <<"M", "o", "n", " ", "0", "9", ":", "0", "0", "-", "z", "z">>
NonNumeric == <<"M", "o", "n", " ", "x", "x", ":", "0", "0", "-", "1", "0", ":", "0", "0">>
NoColon == <<"M", "o", "n", " ", "0", "9", "0", "0", "-", "1", "0", "0", "0">>
NoMinute == <<"M", "o", "n", " ", "0", "9", ":", "-", "1", "0", ":", "0", "0">>

Labels == {Mon09, Mon10, Mon12, Tue09, BadSlot, NoDash, NoEnd, BadEnd,
           NonNumeric, NoColon, NoMinute}

Cfg(cs, fac, rs, ss, pref, req) ==
    [courses |-> cs, faculty |-> fac, rooms |-> rs, slots |-> ss,
     preferred_slots |-> pref, requirements |-> req]

OneEach == ("c1" :> 1 @@ "c2" :> 1)

\* two courses, two teachers, two slots
ScenarioA ==
    Cfg(<<"c1", "c2">>, ("c1" :> "t1" @@ "c2" :> "t2"), <<"r1">>,
        <<Mon09, Mon10>>, EmptyDict, OneEach)

\* two courses of one teacher, a single slot; one room or two
ScenarioB(rs) ==
    Cfg(<<"c1", "c2">>, ("c1" :> "t1" @@ "c2" :> "t1"), rs, <<Mon09>>,
        EmptyDict, OneEach)

\* requirements as the module leaves it at line 16
NoRequirements ==
    Cfg(<<"c1">>, ("c1" :> "t1"), <<"r1", "r2">>, <<Mon09, Mon10>>, EmptyDict,
        EmptyDict)

\* requirements as generate_timetable sets it at line 422
TwoSessions ==
    Cfg(<<"c1">>, ("c1" :> "t1"), <<"r1">>, <<Mon09, Mon12>>, EmptyDict,
        ("c1" :> 2))

Preferences ==
    Cfg(<<"c1", "c2">>, ("c1" :> "t1"), <<"r1">>, <<Mon09, BadSlot>>,
        ("t1" :> <<Mon10>>), OneEach)

NoRooms == Cfg(<<"c1">>, ("c1" :> "t1"), <<>>, <<Mon09>>, EmptyDict, ("c1" :> 1))
NoSlots == Cfg(<<"c1">>, ("c1" :> "t1"), <<"r1">>, <<>>, EmptyDict, ("c1" :> 1))
NoCourses == Cfg(<<>>, EmptyDict, <<"r1">>, <<Mon09>>, EmptyDict, EmptyDict)
NoSlotsButPreferences ==
    Cfg(<<"c1">>, ("c1" :> "t1"), <<"r1">>, <<>>, ("t1" :> <<Mon09>>), ("c1" :> 1))

RunConfigs ==
    {ScenarioA, ScenarioB(<<"r1">>), ScenarioB(<<"r1", "r2">>), NoRequirements,
     TwoSessions, Preferences, NoRooms, NoSlots, NoCourses, NoSlotsButPreferences}

\* the largest max_iter a run is given
MaxIter == 3

ParamChoices ==
    [max_iter : {MaxIter}, T0 : {4 * TFloor, 1000000000},
     alpha : {[num |-> 1, den |-> 2]}, stop_if_zero : BOOLEAN]

\* the module as loaded (lines 15-20) with the configuration filled in
Loaded(cfg) ==
    /\ courses = cfg.courses
    /\ faculty = cfg.faculty
    /\ rooms = cfg.rooms
    /\ slots = cfg.slots
    /\ preferred_slots = cfg.preferred_slots
    /\ requirements = cfg.requirements
    /\ slot_parsed = EmptyDict
    /\ course_teacher_cache = EmptyDict
    /\ label = <<>>
    /\ ret = <<>>
    /\ raised = ""
    /\ day_penalty = 0
    /\ draws = 0

\* no run of simulated_annealing under way
Idle(p) ==
    /\ pc = "idle"
    /\ params = p
    /\ current = <<>>
    /\ current_cost = 0
    /\ best = <<>>
    /\ best_cost = 0
    /\ T = p.T0
    /\ it = 0
    /\ history = EmptyHistory
    /\ neighbor = <<>>
    /\ neighbor_cost = 0
    /\ init_cost = 0

-----------------------------------------------------------------------------
(* A run of simulated_annealing, with or without refresh_caches before it *)

Init ==
    /\ \E cfg \in RunConfigs : Loaded(cfg)
    /\ \E p \in ParamChoices : Idle(p)
    /\ timetable = <<>>

Next == refresh_caches \/ random_solution \/ sa_start \/ sa_iterate \/ sa_cold

Spec == Init /\ [][Next]_vars

-----------------------------------------------------------------------------
(* Properties of a run *)

\* C1: the best_cost values of the history never increase from one entry to
\* the next, and the first is at most the cost of the initial solution.
C1_BestMonotone ==
    /\ \A k \in 1..(Len(history.best_cost) - 1) :
          history.best_cost[k + 1] <= history.best_cost[k]
    /\ history.best_cost # <<>> => history.best_cost[1] <= init_cost

\* a run whose best cost went down between two history entries
C1_Witness ==
    /\ Len(history.best_cost) >= 2
    /\ history.best_cost[2] < history.best_cost[1]
    /\ history.best_cost[1] <= init_cost

\* what the claims call the default of two sessions
ClaimedSessions ==
    SumSeq([i \in 1..Len(courses) |-> Get(requirements, courses[i], 2)])

\* C2: with slots and rooms to draw from, the list random_solution returns
\* has as many assignments as the requirements sum to, a course without an
\* entry counting as 2.
C2_Cardinality ==
    (pc = "idle" /\ ret # <<>> /\ slots # <<>> /\ rooms # <<>>)
        => Len(ret[1]) = ClaimedSessions

EmptyCatalog == rooms = <<>> \/ slots = <<>> \/ courses = <<>>

\* C5: with an empty room, slot or course catalog, random_solution and
\* simulated_annealing make no draw, build nothing and return nothing.
C5_FailFast ==
    EmptyCatalog => (draws = 0 /\ ret = <<>> /\ pc \in {"idle", "raised"})

\* two courses of one teacher, one session each, a single slot, no preferences
IsScenarioB ==
    /\ Len(courses) = 2
    /\ courses[1] # courses[2]
    /\ Get(faculty, courses[1], "") # ""
    /\ Get(faculty, courses[1], "") = Get(faculty, courses[2], "")
    /\ Get(requirements, courses[1], 0) = 1
    /\ Get(requirements, courses[2], 0) = 1
    /\ Len(slots) = 1
    /\ DOMAIN preferred_slots = {}

\* C7: in scenario B the current and the best cost of a run are never below
\* teacher_slot_conflict, in the run's state and in every history entry.
C7_ScenarioB ==
    (IsScenarioB /\ pc \in {"loop", "returned"}) =>
        /\ current_cost >= WEIGHTS.teacher_slot_conflict
        /\ best_cost >= WEIGHTS.teacher_slot_conflict
        /\ \A k \in 1..Len(history.iter) :
              /\ history.current_cost[k] >= WEIGHTS.teacher_slot_conflict
              /\ history.best_cost[k] >= WEIGHTS.teacher_slot_conflict

\* a scenario B run, caches primed, that made all its iterations
C7_Witness ==
    /\ IsScenarioB
    /\ Len(rooms) = 2
    /\ DOMAIN course_teacher_cache # {}
    /\ pc = "returned"
    /\ Len(history.iter) = params.max_iter
    /\ best_cost = WEIGHTS.teacher_slot_conflict

\* C8: a turn of the loop whose candidate costs less than the current solution
\* ends with the candidate as the current solution.
C8_ImprovingAccepted ==
    [][(pc = "loop" /\ T > TFloor /\ it' = it + 1 /\ pc' # "raised"
            /\ neighbor_cost' < current_cost)
        => (current' = neighbor' /\ current_cost' = neighbor_cost')]_vars

\* the first turn of a run took a candidate cheaper than the initial solution
C8_Witness ==
    /\ pc \in {"loop", "returned"}
    /\ Len(history.iter) = 1
    /\ neighbor_cost < init_cost
    /\ current = neighbor
    /\ current_cost = neighbor_cost

\* C9: with stop_if_zero, every turn made has its one history entry, numbered
\* in order, and an entry whose best_cost is 0 is the last one of a run that
\* has returned.
C9_EarlyStop ==
    /\ Len(history.current_cost) = Len(history.iter)
    /\ Len(history.best_cost) = Len(history.iter)
    /\ \A k \in 1..Len(history.iter) : history.iter[k] = k
    /\ pc = "loop" => Len(history.iter) = it
    /\ params.stop_if_zero =>
         \A k \in 1..Len(history.best_cost) :
            history.best_cost[k] = 0 =>
                (k = Len(history.best_cost) /\ pc = "returned")

\* a run stopped by a zero best cost at its second turn or later
C9_Witness ==
    /\ params.stop_if_zero
    /\ pc = "returned"
    /\ Len(history.iter) >= 2
    /\ Len(history.iter) < params.max_iter
    /\ history.best_cost[Len(history.iter)] = 0
    /\ history.current_cost[1] > 0

\* how many assignments of solution tt are of course c
CourseCount(tt, c) == Cardinality({i \in 1..Len(tt) : tt[i][1] = c})

SameCourses(a, b) ==
    /\ Len(a) = Len(b)
    /\ \A i \in 1..Len(b) : CourseCount(a, b[i][1]) = CourseCount(b, b[i][1])

\* C11: in a run, the current solution, the best solution and the last
\* candidate neighbor_solution produced have the length of the initial
\* solution and as many assignments of each course.
C11_CoursesKept ==
    (pc \in {"loop", "returned"}) =>
        /\ SameCourses(current, timetable)
        /\ SameCourses(best, timetable)
        /\ (Len(history.iter) >= 1) => SameCourses(neighbor, timetable)

\* a run that ended on a solution in which two assignments of different
\* courses have exchanged their positions
C11_Witness ==
    /\ pc = "returned"
    /\ Len(history.iter) >= 2
    /\ Len(timetable) = 2
    /\ timetable[1][1] # timetable[2][1]
    /\ current[1][1] = timetable[2][1]
    /\ current[2][1] = timetable[1][1]
    /\ current[1][2] # current[2][2]

\* what cost_function returns for solution tt with the caches sp and ctc
CostOf(tt, sp, ctc) == CostFunction(tt, sp, ctc, preferred_slots).penalty

Least(costs) == CHOOSE x \in costs : \A y \in costs : x <= y

\* the costs kept are those of the solutions kept, the best is at most the
\* current, and it is the least of the initial cost and the current costs
\* recorded
RunConsistent(cur, cc, bst, bc, h, ic, sp, ctc) ==
    /\ cc = CostOf(cur, sp, ctc)
    /\ bc = CostOf(bst, sp, ctc)
    /\ bc <= cc
    /\ bc = Least({ic} \cup Range(h.current_cost))

\* a step of simulated_annealing that leaves the run under way or returned
RunStep == pc \in {"idle", "loop"} /\ pc' \in {"loop", "returned"}

\* C12: after every step of a run, current_cost and best_cost are what
\* cost_function gives for the current and the best solution, best_cost is at
\* most current_cost and is the least of the initial cost and the current
\* costs in the history; a turn of the loop replaces the best solution only by
\* an accepted candidate of strictly lower cost, and otherwise leaves it and
\* its cost as they were.
C12_BestTracked ==
    [][RunStep =>
        /\ RunConsistent(current', current_cost', best', best_cost', history',
                         init_cost', slot_parsed', course_teacher_cache')
        /\ (pc = "loop" /\ best' # best) =>
               (best' = neighbor' /\ current' = neighbor' /\ neighbor_cost' < best_cost)
        /\ (pc = "loop" /\ best' = best) => best_cost' = best_cost]_vars

\* a returned run whose best solution, found at the first turn, was kept
\* while a later, costlier candidate became the current solution
C12_Witness ==
    /\ pc = "returned"
    /\ Len(history.iter) >= 2
    /\ history.best_cost[1] < init_cost
    /\ best_cost = history.best_cost[1]
    /\ current_cost > best_cost
    /\ current # best
    /\ DOMAIN course_teacher_cache # {}

-----------------------------------------------------------------------------
(* cost_function and parse_slot called on their own *)

\* the longest solution handed to cost_function
MaxLen == 2

Assignments == {"c1", "c2", "c3"} \X {Mon09, Mon10, BadSlot} \X {"r1", "r2"}

Solutions == UNION {[1..n -> Assignments] : n \in 0..MaxLen}

CostConfigs == {ScenarioA, ScenarioB(<<"r1", "r2">>), Preferences}

InitCost ==
    /\ \E cfg \in CostConfigs : Loaded(cfg)
    /\ \E p \in ParamChoices : p.stop_if_zero /\ p.T0 = 4 * TFloor /\ Idle(p)
    /\ timetable \in Solutions

NextCost == refresh_caches \/ cost_function

SpecCost == InitCost /\ [][NextCost]_vars

\* the teacher the configuration gives a course
FacultyOf(course) == Get(faculty, course, "")

SameSlot(a, b) == a[2] = b[2]

\* C3: a solution cost_function values at 0 has no two assignments with the
\* same teacher and slot, none with the same room and slot, a teacher in
\* faculty for every course, and only slot labels that parse.
C3_ZeroCost ==
    (ret = <<0>>) =>
        /\ \A i, j \in 1..Len(timetable) :
              (i < j /\ SameSlot(timetable[i], timetable[j])) =>
                  /\ FacultyOf(timetable[i][1]) # FacultyOf(timetable[j][1])
                  /\ timetable[i][3] # timetable[j][3]
        /\ \A i \in 1..Len(timetable) :
              /\ FacultyOf(timetable[i][1]) # ""
              /\ ParseLabel(timetable[i][2]).ok

\* a solution of two assignments valued at 0
C3_Witness == ret = <<0>> /\ Len(timetable) >= 2

\* C4: two calls of cost_function on the same solution under the same
\* configuration return the same value, whatever the caches held.
C4_Pure == [][(cost_function /\ ret # <<>>) => ret' = ret]_vars

-----------------------------------------------------------------------------

InitParse ==
    /\ \E cfg \in {ScenarioA, Preferences} : Loaded(cfg)
    /\ \E p \in ParamChoices : p.stop_if_zero /\ p.T0 = 4 * TFloor /\ Idle(p)
    /\ timetable = <<>>

NextParse == refresh_caches \/ \E l \in Labels : parse_slot(l)

SpecParse == InitParse /\ [][NextParse]_vars

IsLetter(ch) == ~IsDigit(ch) /\ ch \notin {" ", ":", "-", "+", "_"}

\* two digits, a colon, two digits from position i on
IsClock(l, i) ==
    /\ IsDigit(l[i]) /\ IsDigit(l[i + 1]) /\ l[i + 2] = ":"
    /\ IsDigit(l[i + 3]) /\ IsDigit(l[i + 4])

\* "<Day> <HH:MM>-<HH:MM>" with a day of n letters
HasForm(l, n) ==
    /\ n >= 1
    /\ Len(l) = n + 12
    /\ \A i \in 1..n : IsLetter(l[i])
    /\ l[n + 1] = " "
    /\ IsClock(l, n + 2)
    /\ l[n + 7] = "-"
    /\ IsClock(l, n + 8)

WellFormed(l) == \E n \in 1..Len(l) : HasForm(l, n)

\* (day, hh * 60 + mm) of the start time of a label of that form
Expected(l) ==
    LET n == Len(l) - 12
    IN  <<SubSeq(l, 1, n),
          (DigitVal(l[n + 2]) * 10 + DigitVal(l[n + 3])) * 60
              + DigitVal(l[n + 5]) * 10 + DigitVal(l[n + 6])>>

\* C6: parse_slot returns (day, hh * 60 + mm) for a label of the form
\* "<Day> <HH:MM>-<HH:MM>", and for any other label raises and caches nothing.
C6_Strict ==
    (label # <<>>) =>
        IF WellFormed(label)
        THEN raised = "" /\ ret = <<Expected(label)>>
        ELSE raised = "ValueError" /\ ret = <<>> /\ label \notin DOMAIN slot_parsed

-----------------------------------------------------------------------------

\* the longest solution whose day-level penalty is checked
MaxSessions == 5

Workload ==
    Cfg(<<"c1", "c2", "c3">>, ("c1" :> "t1" @@ "c2" :> "t2"), <<"r1">>,
        <<Mon09, Mon10, Mon12, Tue09, BadSlot>>, EmptyDict,
        ("c1" :> 2 @@ "c2" :> 2 @@ "c3" :> 2))

WorkloadAssignments ==
    {<<"c1", Mon09, "r1">>, <<"c1", Mon10, "r1">>, <<"c1", Mon12, "r1">>,
     <<"c1", BadSlot, "r1">>, <<"c3", Mon09, "r1">>, <<"c2", Tue09, "r1">>}

InitWorkload ==
    /\ Loaded(Workload)
    /\ \E p \in ParamChoices : p.stop_if_zero /\ p.T0 = 4 * TFloor /\ Idle(p)
    /\ timetable \in UNION {[1..n -> WorkloadAssignments] : n \in 0..MaxSessions}

SpecWorkload == InitWorkload /\ [][NextCost]_vars

\* the positions cost_function files in a bucket, each with its teacher, day
\* and start minute: those whose course has a teacher and whose slot parses
Filed ==
    LET parsed == [i \in 1..Len(timetable) |-> ParseLabel(timetable[i][2])]
    IN  {[i |-> i, teacher |-> TeacherOf(course_teacher_cache, timetable[i][1]),
          day |-> parsed[i].day, m |-> parsed[i].start_minutes]
         : i \in {j \in 1..Len(timetable) :
                    /\ TeacherOf(course_teacher_cache, timetable[j][1]) # ""
                    /\ parsed[j].ok}}

\* the (teacher, day) bucket of the entries f
Bucket(f, t, d) == {e \in f : e.teacher = t /\ e.day = d}

Minutes(b) == {e.m : e \in b}

Before(v, ms) == CHOOSE u \in ms : u < v /\ \A w \in ms : w < v => w <= u

\* one penalty for each start minute after the earliest, by its distance from
\* the one before it; equal start minutes add nothing
RECURSIVE StepsPenalty(_, _)
StepsPenalty(rest, ms) ==
    IF rest = {} THEN 0
    ELSE LET v == CHOOSE x \in rest : TRUE
         IN  (IF \A u \in ms : u >= v THEN 0
              ELSE IF v - Before(v, ms) <= 60 THEN WEIGHTS.back_to_back
              ELSE WEIGHTS.gap)
             + StepsPenalty(rest \ {v}, ms)

\* the rule for one bucket: the sessions beyond four, and the steps
BucketRule(b) ==
    (IF Cardinality(b) >= 5
     THEN WEIGHTS.too_many_sessions_day * (Cardinality(b) - 4) ELSE 0)
    + StepsPenalty(Minutes(b), Minutes(b))

RECURSIVE RuleOver(_, _)
RuleOver(f, keys) ==
    IF keys = {} THEN 0
    ELSE LET k == CHOOSE x \in keys : TRUE
         IN  BucketRule(Bucket(f, k[1], k[2])) + RuleOver(f, keys \ {k})

RuleOn(f) == RuleOver(f, {<<e.teacher, e.day>> : e \in f})

WorkloadRule == RuleOn(Filed)

\* C10: the day-level part of the cost a call of cost_function computes is the
\* rule applied to every (teacher, day) bucket of the solution it is called
\* on (the call changes neither the solution nor the teachers); an assignment
\* without teacher or with a slot that does not parse is in no bucket.
C10_Workload == [][cost_function => day_penalty' = WorkloadRule]_vars

\* five sessions of one teacher on one day, with an equal, a close and a
\* distant pair of start minutes
C10_Witness ==
    /\ ret # <<>>
    /\ DOMAIN course_teacher_cache # {}
    /\ Cardinality(Bucket(Filed, "t1", <<"M", "o", "n">>)) >= 5
    /\ Minutes(Bucket(Filed, "t1", <<"M", "o", "n">>)) = {540, 600, 720}
    /\ day_penalty = WEIGHTS.too_many_sessions_day + WEIGHTS.back_to_back + WEIGHTS.gap

=============================================================================
